---------------------------- MODULE Spec2Model ----------------------------
(***************************************************************************)
(* Model of the two release scripts of sharno/zagel:                       *)
(*   scripts/release_checksums.py  (writes a SHA256SUMS manifest)           *)
(*   scripts/release_packaging.py  (renders package-manager manifests)     *)
(* The state is the file system the scripts read and write, and the        *)
(* record of the last run.  Each run of a script is one action.            *)
(*                                                                         *)
(* Text is modelled by TLA+ strings; a path is the sequence of its         *)
(* components, relative to the working directory (the repository root).    *)
(***************************************************************************)
EXTENDS Integers, Sequences, FiniteSets, TLC

VARIABLES fs,         \* the file system: path -> node
          last,       \* what the last run of a script did
          runs,       \* number of runs so far
          generated   \* history: the paths release_packaging.py has written

vars == <<fs, last, runs, generated>>

(***************************************************************************)
(* Bounds of the model.                                                    *)
(***************************************************************************)
\* number of script runs explored from each initial file system
MaxRuns == 2
\* read size of sha256_for_file (1024 * 1024 in the source), scaled down so
\* that the files of the model span several reads
ChunkSize == 16

\* F applied to the value of e, which is computed once
Bind(e, F(_)) == CHOOSE y \in {F(x) : x \in {e}} : TRUE

(***************************************************************************)
(* Strings (Python str).                                                   *)
(***************************************************************************)
\* the characters the model uses, in code-point (ASCII) order.  A TLA+ string
\* cannot hold a backquote: "\t" stands for it, at the backquote's rank
Alphabet == "\n !\"#$%&'()*+,-./0123456789:;<=>?@ABCDEFGHIJKLMNOPQRSTUVWXYZ[\\]^_\tabcdefghijklmnopqrstuvwxyz{|}~"

CharAt(s, i) == SubSeq(s, i, i)

\* rank of each character in code-point order
Rank ==
    [c \in {CharAt(Alphabet, i) : i \in 1..Len(Alphabet)} |->
        CHOOSE i \in 1..Len(Alphabet) : CharAt(Alphabet, i) = c]

Ord(c) == Rank[c]

\* str.startswith
StartsWith(s, prefix) ==
    /\ Len(s) >= Len(prefix)
    /\ SubSeq(s, 1, Len(prefix)) = prefix

\* str.endswith
EndsWith(s, suffix) ==
    /\ Len(s) >= Len(suffix)
    /\ SubSeq(s, Len(s) - Len(suffix) + 1, Len(s)) = suffix

\* s[n:]
DropPrefix(s, n) == SubSeq(s, n + 1, Len(s))

\* the order of Python str (a < b): lexicographic by code point
RECURSIVE StrLess(_, _)
StrLess(a, b) ==
    IF Len(b) = 0 THEN FALSE
    ELSE IF Len(a) = 0 THEN TRUE
    ELSE IF CharAt(a, 1) = CharAt(b, 1)
         THEN StrLess(DropPrefix(a, 1), DropPrefix(b, 1))
         ELSE Ord(CharAt(a, 1)) < Ord(CharAt(b, 1))

\* "sep".join(lines): JoinRange joins the lines lo..hi
RECURSIVE JoinRange(_, _, _, _)
JoinRange(lines, sep, lo, hi) ==
    IF lo > hi THEN ""
    ELSE IF lo = hi THEN lines[lo]
    ELSE JoinRange(lines, sep, lo, (lo + hi) \div 2) \o sep
         \o JoinRange(lines, sep, ((lo + hi) \div 2) + 1, hi)

Join(lines, sep) == JoinRange(lines, sep, 1, Len(lines))

(***************************************************************************)
(* The file system (pathlib.Path).  The working directory is the empty     *)
(* path and always exists.                                                 *)
(***************************************************************************)
DirNode == [kind |-> "dir"]
TextFile(text) == [kind |-> "file", text |-> text]

Parent(p) == SubSeq(p, 1, Len(p) - 1)
Name(p) == p[Len(p)]
\* str(path)
PathStr(p) == Join(p, "/")

Exists(f, p) == p = <<>> \/ p \in DOMAIN f
IsDir(f, p) == p = <<>> \/ (p \in DOMAIN f /\ f[p].kind = "dir")
IsFile(f, p) == p \in DOMAIN f /\ f[p].kind = "file"

\* Path.iterdir
IterDir(f, d) == {p \in DOMAIN f : Len(p) = Len(d) + 1 /\ Parent(p) = d}

Prefixes(p) == {SubSeq(p, 1, n) : n \in 1..Len(p)}

\* Path.mkdir(parents=True, exist_ok=True): fails, creating nothing, when the
\* path or one of its ancestors is a regular file
Mkdir(f, p) ==
    IF \E q \in Prefixes(p) : IsFile(f, q)
    THEN [ok |-> FALSE, fs |-> f]
    ELSE [ok |-> TRUE,
          fs |-> [q \in DOMAIN f \cup Prefixes(p) |->
                    IF q \in DOMAIN f THEN f[q] ELSE DirNode]]

\* Path.write_text: fails when the path is a directory or its parent is none
PathWriteText(f, p, node) ==
    IF IsDir(f, p) \/ ~IsDir(f, Parent(p))
    THEN [ok |-> FALSE, fs |-> f]
    ELSE [ok |-> TRUE,
          fs |-> [q \in DOMAIN f \cup {p} |-> IF q = p THEN node ELSE f[q]]]

(***************************************************************************)
(* release_checksums.py                                                    *)
(***************************************************************************)
HexDigits == "0123456789abcdef"

\* the hasher of hashlib: the model keeps a 16-bit running state in place
\* of the SHA-256 state; update() folds the bytes of a chunk into it, from
\* the first to the last.  UpdateRange folds the bytes lo..hi, the left half
\* before the right half.
RECURSIVE UpdateRange(_, _, _, _)
UpdateRange(h, chunk, lo, hi) ==
    IF lo > hi THEN h
    ELSE IF lo = hi THEN (h * 31 + Ord(CharAt(chunk, lo))) % 65521
    ELSE Bind(UpdateRange(h, chunk, lo, (lo + hi) \div 2),
              LAMBDA h2 : UpdateRange(h2, chunk, (lo + hi) \div 2 + 1, hi))

HasherUpdate(h, chunk) == UpdateRange(h, chunk, 1, Len(chunk))

\* hexdigest(): 64 lowercase hexadecimal characters; HexRange gives the
\* characters lo..hi of the digest
RECURSIVE HexRange(_, _, _)
HexRange(h, lo, hi) ==
    IF lo = hi
    THEN CharAt(HexDigits, 1 + (((h \div lo) + (h * lo) + lo) % 16))
    ELSE LET mid == (lo + hi) \div 2
         IN HexRange(h, lo, mid) \o HexRange(h, mid + 1, hi)

HexDigest(h) == HexRange(h, 1, 64)

\* the read loop of sha256_for_file: handle.read(ChunkSize) from position
\* pos on, until it returns b""
RECURSIVE ReadLoop(_, _, _)
ReadLoop(h, content, pos) ==
    IF pos > Len(content) THEN h
    ELSE Bind(HasherUpdate(h, SubSeq(content, pos,
                                     IF pos + ChunkSize - 1 < Len(content)
                                     THEN pos + ChunkSize - 1
                                     ELSE Len(content))),
              LAMBDA h2 : ReadLoop(h2, content, pos + ChunkSize))

sha256_for_file(f, p) == HexDigest(ReadLoop(0, f[p].text, 1))

\* the listing had main sorted it with reverse=True
RECURSIVE SortedByNameReversed(_)
SortedByNameReversed(paths) ==
    IF paths = {} THEN <<>>
    ELSE LET first == CHOOSE p \in paths :
                        \A q \in paths \ {p} : StrLess(Name(q), Name(p))
         IN <<first>> \o SortedByNameReversed(paths \ {first})

\* sorted(..., key=lambda file: file.name) over the entries of one
\* directory, whose names are pairwise different
RECURSIVE SortedByName(_)
SortedByName(paths) ==
    IF paths = {} THEN <<>>
    ELSE LET first == CHOOSE p \in paths :
                        \A q \in paths \ {p} : StrLess(Name(p), Name(q))
         IN <<first>> \o SortedByName(paths \ {first})

\* the artifacts had main not left out the file named like the output
ArtifactFilesUnfiltered(f, dist_dir, output_path) ==
    {file \in IterDir(f, dist_dir) : IsFile(f, file)}

\* the artifacts of main: regular files not named like the output
ArtifactFiles(f, dist_dir, output_path) ==
    {file \in IterDir(f, dist_dir) :
        IsFile(f, file) /\ Name(file) # Name(output_path)}

ChecksumLine(f, file) == sha256_for_file(f, file) \o "  " \o Name(file)

\* the tail of main: the lines, the mkdir and the write
WriteManifest(f, files, output_path) ==
    Bind(Mkdir(f, Parent(output_path)), LAMBDA made :
    IF ~made.ok
    THEN [status |-> "FileExistsError", message |-> "mkdir", fs |-> f]
    ELSE
    Bind(PathWriteText(made.fs, output_path,
           TextFile(Join([i \in 1..Len(files) |-> ChecksumLine(f, files[i])],
                         "\n") \o "\n")),
         LAMBDA written :
    IF ~written.ok
    THEN [status |-> "IsADirectoryError", message |-> "write_text",
          fs |-> made.fs]
    ELSE [status |-> "ok", message |-> "", fs |-> written.fs]))

\* main had it made the parent of the output before it looked at dist_dir
ChecksumsMainMkdirFirst(f, dist_dir, output_path) ==
    Bind(Mkdir(f, Parent(output_path)), LAMBDA made :
    Bind(IF made.ok THEN made.fs ELSE f, LAMBDA g :
    IF ~Exists(g, dist_dir) \/ ~IsDir(g, dist_dir)
    THEN [status |-> "ReleaseArtifactsError",
          message |-> "dist directory does not exist: "
                      \o PathStr(dist_dir),
          fs |-> g]
    ELSE
    Bind(SortedByName(ArtifactFiles(g, dist_dir, output_path)),
         LAMBDA files :
    IF files = <<>>
    THEN [status |-> "ReleaseArtifactsError",
          message |-> "no release artifacts found in "
                      \o PathStr(dist_dir),
          fs |-> g]
    ELSE WriteManifest(g, files, output_path))))

\* main() of release_checksums.py
ChecksumsMain(f, dist_dir, output_path) ==
    IF ~Exists(f, dist_dir) \/ ~IsDir(f, dist_dir)
    THEN [status |-> "ReleaseArtifactsError",
          message |-> "dist directory does not exist: "
                      \o PathStr(dist_dir),
          fs |-> f]
    ELSE
    Bind(SortedByName(ArtifactFiles(f, dist_dir, output_path)),
         LAMBDA files :
    IF files = <<>>
    THEN [status |-> "ReleaseArtifactsError",
          message |-> "no release artifacts found in "
                      \o PathStr(dist_dir),
          fs |-> f]
    ELSE WriteManifest(f, files, output_path))

(***************************************************************************)
(* release_packaging.py                                                    *)
(***************************************************************************)
\* a file holding a parsed JSON document / a parsed TOML document
JsonFile(doc) == [kind |-> "file", json |-> doc]
TomlFile(doc) == [kind |-> "file", toml |-> doc]

IsText(node) == "text" \in DOMAIN node
IsJson(node) == "json" \in DOMAIN node
IsToml(node) == "toml" \in DOMAIN node

\* REPO_ROOT / "Cargo.toml"; the working directory is the repository root
CargoToml == <<"Cargo.toml">>

MetadataFields == <<"name", "description", "license", "repository">>

\* read_cargo_metadata: the package table is a function from the keys it
\* holds; a key it lacks raises KeyError
read_cargo_metadata(f) ==
    IF ~IsFile(f, CargoToml)
    THEN [status |-> "FileNotFoundError", message |-> "Cargo.toml",
          metadata |-> << >>]
    ELSE IF ~IsToml(f[CargoToml])
    THEN [status |-> "TOMLDecodeError", message |-> "Cargo.toml",
          metadata |-> << >>]
    ELSE
    LET package == f[CargoToml].toml
        missing == {i \in 1..Len(MetadataFields) :
                      MetadataFields[i] \notin DOMAIN package}
    IN
    IF missing # {}
    THEN [status |-> "KeyError",
          message |-> MetadataFields[CHOOSE i \in missing :
                                       \A j \in missing : i <= j],
          metadata |-> << >>]
    ELSE [status |-> "ok", message |-> "",
          metadata |-> <<[k \in {MetadataFields[i] :
                                   i \in 1..Len(MetadataFields)} |->
                            package[k]]>>]

\* what asset.get("digest", "") gives: <<d>> for the string d and << >> for
\* None.  The key is a field of the asset when the asset has it; it holds
\* <<d>> for the JSON string d and << >> for the JSON null.
GetDigest(asset) ==
    IF "digest" \in DOMAIN asset THEN asset.digest ELSE <<"">>

\* parse_sha256; None has no method startswith
parse_sha256(digest, asset_name) ==
    LET prefix == "sha256:"
    IN IF digest = << >>
       THEN [status |-> "AttributeError",
             message |-> "'NoneType' object has no attribute 'startswith'",
             sha256 |-> ""]
       ELSE IF ~StartsWith(digest[1], prefix)
       THEN [status |-> "ValueError",
             message |-> "asset " \o asset_name
                         \o " is missing a sha256 digest",
             sha256 |-> ""]
       ELSE [status |-> "ok", message |-> "",
             sha256 |-> DropPrefix(digest[1], Len(prefix))]

ReleaseAsset(name, url, sha256) ==
    [name |-> name, url |-> url, sha256 |-> sha256]

\* load_assets: the list comprehension stops at the first asset whose
\* digest parse_sha256 rejects
load_assets(f, release_json) ==
    IF ~Exists(f, release_json)
    THEN [status |-> "FileNotFoundError", message |-> "release-json",
          tag |-> << >>, assets |-> << >>]
    ELSE IF IsDir(f, release_json)
    THEN [status |-> "IsADirectoryError", message |-> "release-json",
          tag |-> << >>, assets |-> << >>]
    ELSE IF ~IsJson(f[release_json])
    THEN [status |-> "JSONDecodeError", message |-> "release-json",
          tag |-> << >>, assets |-> << >>]
    ELSE
    LET payload == f[release_json].json
        tag == payload.tagName
        parsed == [i \in 1..Len(payload.assets) |->
                     parse_sha256(GetDigest(payload.assets[i]),
                                  payload.assets[i].name)]
        bad == {i \in 1..Len(parsed) : parsed[i].status # "ok"}
    IN
    IF bad # {}
    THEN LET i == CHOOSE i \in bad : \A j \in bad : i <= j
         IN [status |-> parsed[i].status, message |-> parsed[i].message,
             tag |-> <<tag>>, assets |-> << >>]
    ELSE [status |-> "ok", message |-> "", tag |-> <<tag>>,
          assets |-> [i \in 1..Len(parsed) |->
                        ReleaseAsset(payload.assets[i].name,
                                     payload.assets[i].url,
                                     parsed[i].sha256)]]

\* find_asset had it returned the first match without counting the matches
find_asset_first(assets, expected_suffix) ==
    LET matches == SelectSeq(assets,
                             LAMBDA asset : EndsWith(asset.name,
                                                     expected_suffix))
    IN IF matches = << >>
       THEN [status |-> "ValueError",
             message |-> "could not find release asset ending in '"
                         \o expected_suffix \o "'",
             asset |-> << >>]
       ELSE [status |-> "ok", message |-> "", asset |-> <<matches[1]>>]

\* find_asset
find_asset(assets, expected_suffix) ==
    LET matches == SelectSeq(assets,
                             LAMBDA asset : EndsWith(asset.name,
                                                     expected_suffix))
    IN IF matches = << >>
       THEN [status |-> "ValueError",
             message |-> "could not find release asset ending in '"
                         \o expected_suffix \o "'",
             asset |-> << >>]
       ELSE IF Len(matches) > 1
       THEN [status |-> "ValueError",
             message |-> "found multiple assets ending in '"
                         \o expected_suffix \o "'",
             asset |-> << >>]
       ELSE [status |-> "ok", message |-> "", asset |-> <<matches[1]>>]

\* write_text had it left a file that is already there
write_text_keep(f, path, content) ==
    Bind(Mkdir(f, Parent(path)), LAMBDA made :
    IF ~made.ok THEN [status |-> "FileExistsError", fs |-> f]
    ELSE IF Exists(made.fs, path) /\ IsFile(made.fs, path)
    THEN [status |-> "ok", fs |-> made.fs]
    ELSE
    Bind(PathWriteText(made.fs, path, TextFile(content)), LAMBDA written :
    IF ~written.ok THEN [status |-> "IsADirectoryError", fs |-> made.fs]
    ELSE [status |-> "ok", fs |-> written.fs]))

\* write_text of release_packaging.py: mkdir of the parent, then the write
write_text(f, path, content) ==
    Bind(Mkdir(f, Parent(path)), LAMBDA made :
    IF ~made.ok THEN [status |-> "FileExistsError", fs |-> f]
    ELSE
    Bind(PathWriteText(made.fs, path, TextFile(content)), LAMBDA written :
    IF ~written.ok THEN [status |-> "IsADirectoryError", fs |-> made.fs]
    ELSE [status |-> "ok", fs |-> written.fs]))

(***************************************************************************)
(* textwrap.dedent, on the lines of the text.  The values the templates    *)
(* are filled with hold no line break, so the lines of the filled text are *)
(* the lines of the template.                                              *)
(***************************************************************************)
\* the blanks of line from position i on, up to the first other character
RECURSIVE BlanksFrom(_, _)
BlanksFrom(line, i) ==
    IF i > Len(line) \/ CharAt(line, i) # " " THEN 0
    ELSE 1 + BlanksFrom(line, i + 1)

LeadingSpaces(line) == BlanksFrom(line, 1)

\* the margin: the leading whitespace common to the lines that are not
\* blank, given the indent of every line
Margin(lines, indent) ==
    LET idx == {i \in 1..Len(lines) : indent[i] < Len(lines[i])}
    IN IF idx = {} THEN 0
       ELSE indent[CHOOSE i \in idx : \A j \in idx : indent[i] <= indent[j]]

StripMargin(lines, indent, margin) ==
    Join([i \in 1..Len(lines) |->
            IF indent[i] = Len(lines[i]) THEN ""
            ELSE DropPrefix(lines[i], margin)], "\n")

DedentLines(lines) ==
    Bind([i \in 1..Len(lines) |-> LeadingSpaces(lines[i])],
         LAMBDA indent :
           Bind(Margin(lines, indent),
                LAMBDA margin : StripMargin(lines, indent, margin)))

dedent(lines) == Bind(lines, DedentLines)

(***************************************************************************)
(* json.dumps of a str: the characters of the model that JSON escapes are  *)
(* the double quote, the backslash and the line break.                     *)
(***************************************************************************)
JsonEscapeChar(c) ==
    IF c = "\"" THEN "\\\""
    ELSE IF c = "\\" THEN "\\\\"
    ELSE IF c = "\n" THEN "\\n"
    ELSE c

RECURSIVE JsonEscape(_)
JsonEscape(s) ==
    IF Len(s) = 0 THEN ""
    ELSE IF Len(s) = 1 THEN JsonEscapeChar(s)
    ELSE LET mid == Len(s) \div 2
         IN JsonEscape(SubSeq(s, 1, mid)) \o JsonEscape(DropPrefix(s, mid))

JsonString(s) == "\"" \o JsonEscape(s) \o "\""

(***************************************************************************)
(* The templates.                                                          *)
(***************************************************************************)
\* build_homebrew_formula, lines 95-140
build_homebrew_formula(version, metadata, linux_asset, mac_x64_asset, mac_arm_asset) ==
    dedent(<<
        "        class Zagel < Formula",
        "          desc \"" \o metadata["description"] \o "\"",
        "          homepage \"" \o metadata["repository"] \o "\"",
        "          version \"" \o version \o "\"",
        "          license \"" \o metadata["license"] \o "\"",
        "",
        "          on_macos do",
        "            if Hardware::CPU.arm?",
        "              url \"" \o mac_arm_asset.url \o "\"",
        "              sha256 \"" \o mac_arm_asset.sha256 \o "\"",
        "            end",
        "",
        "            if Hardware::CPU.intel?",
        "              url \"" \o mac_x64_asset.url \o "\"",
        "              sha256 \"" \o mac_x64_asset.sha256 \o "\"",
        "            end",
        "          end",
        "",
        "          on_linux do",
        "            if Hardware::CPU.intel?",
        "              url \"" \o linux_asset.url \o "\"",
        "              sha256 \"" \o linux_asset.sha256 \o "\"",
        "            else",
        "              odie \"zagel currently supports x86_64 Linux only\"",
        "            end",
        "          end",
        "",
        "          def install",
        "            bin.install \"zagel\"",
        "          end",
        "",
        "          test do",
        "            assert_predicate bin/\"zagel\", :exist?",
        "          end",
        "        end",
        "        ">>)

\* build_winget_version_manifest, lines 175-184
build_winget_version_manifest(version) ==
    dedent(<<
        "        PackageIdentifier: Sharno.Zagel",
        "        PackageVersion: " \o version,
        "        DefaultLocale: en-US",
        "        ManifestType: version",
        "        ManifestVersion: 1.9.0",
        "        ">>)

\* build_winget_installer_manifest, lines 187-204
build_winget_installer_manifest(version, windows_asset) ==
    dedent(<<
        "        PackageIdentifier: Sharno.Zagel",
        "        PackageVersion: " \o version,
        "        Installers:",
        "          - Architecture: x64",
        "            InstallerType: zip",
        "            NestedInstallerType: portable",
        "            NestedInstallerFiles:",
        "              - RelativeFilePath: zagel.exe",
        "                PortableCommandAlias: zagel",
        "            InstallerUrl: " \o windows_asset.url,
        "            InstallerSha256: " \o windows_asset.sha256,
        "        ManifestType: installer",
        "        ManifestVersion: 1.9.0",
        "        ">>)

\* build_winget_locale_manifest, lines 207-230
build_winget_locale_manifest(version, metadata) ==
    dedent(<<
        "        PackageIdentifier: Sharno.Zagel",
        "        PackageVersion: " \o version,
        "        PackageLocale: en-US",
        "        Publisher: sharno",
        "        PublisherUrl: https://github.com/sharno",
        "        PublisherSupportUrl: " \o metadata["repository"] \o "/issues",
        "        Author: sharno",
        "        PackageName: Zagel",
        "        PackageUrl: " \o metadata["repository"],
        "        License: " \o metadata["license"],
        "        ShortDescription: " \o metadata["description"],
        "        Moniker: zagel",
        "        Tags:",
        "          - rest",
        "          - http",
        "          - api",
        "          - client",
        "        ManifestType: defaultLocale",
        "        ManifestVersion: 1.9.0",
        "        ">>)

\* build_choco_nuspec, lines 233-251
build_choco_nuspec(version, metadata) ==
    dedent(<<
        "        <?xml version=\"1.0\"?>",
        "        <package xmlns=\"http://schemas.microsoft.com/packaging/2015/06/nuspec.xsd\">",
        "          <metadata>",
        "            <id>zagel</id>",
        "            <version>" \o version \o "</version>",
        "            <title>Zagel</title>",
        "            <authors>sharno</authors>",
        "            <projectUrl>" \o metadata["repository"] \o "</projectUrl>",
        "            <license type=\"expression\">" \o metadata["license"] \o "</license>",
        "            <requireLicenseAcceptance>false</requireLicenseAcceptance>",
        "            <description>" \o metadata["description"] \o "</description>",
        "            <tags>zagel rest http client gui</tags>",
        "          </metadata>",
        "        </package>",
        "        ">>)

\* build_choco_install_script, lines 254-272
build_choco_install_script(windows_asset) ==
    dedent(<<
        "        $ErrorActionPreference = 'Stop'",
        "        $packageName = 'zagel'",
        "        $toolsDir = Split-Path -Parent $MyInvocation.MyCommand.Definition",
        "",
        "        $packageArgs = @{",
        "          packageName   = $packageName",
        "          unzipLocation = $toolsDir",
        "          url64bit      = '" \o windows_asset.url \o "'",
        "          checksum64    = '" \o windows_asset.sha256 \o "'",
        "          checksumType64 = 'sha256'",
        "        }",
        "",
        "        Install-ChocolateyZipPackage @packageArgs",
        "        Install-BinFile -Name 'zagel' -Path (Join-Path $toolsDir 'zagel.exe')",
        "        ">>)

\* build_aur_pkgbuild, lines 279-299
build_aur_pkgbuild(version, metadata, linux_asset) ==
    dedent(<<
        "        pkgname=zagel-bin",
        "        pkgver=" \o version,
        "        pkgrel=1",
        "        pkgdesc='" \o metadata["description"] \o "'",
        "        arch=('x86_64')",
        "        url='" \o metadata["repository"] \o "'",
        "        license=('" \o metadata["license"] \o "')",
        "        depends=('glibc')",
        "        source=('zagel-v${pkgver}-x86_64-unknown-linux-gnu.tar.gz::" \o linux_asset.url \o "')",
        "        sha256sums=('" \o linux_asset.sha256 \o "')",
        "",
        "        package() {",
        "          install -Dm755 \"${srcdir}/zagel\" \"${pkgdir}/usr/bin/zagel\"",
        "        }",
        "        ">>)

\* build_packaging_readme, lines 302-322
build_packaging_readme ==
    dedent(<<
        "        # Packaging",
        "",
        "        This directory is the source of truth for package-manager manifests.",
        "",
        "        - \thomebrew/zagel.rb\t: Homebrew formula for a dedicated tap.",
        "        - \tscoop/zagel.json\t: Scoop manifest for a dedicated bucket.",
        "        - \twinget/manifests/...\t: Winget manifests matching winget-pkgs layout.",
        "        - \tchocolatey/\t: Chocolatey nuspec and install scripts.",
        "        - \taur/PKGBUILD\t: AUR \tzagel-bin\t package spec.",
        "",
        "        ## Update flow",
        "",
        "        1. Publish a GitHub release (\tvX.Y.Z\t).",
        "        2. Run \tpackaging-update.yml\t (or wait for release trigger).",
        "        3. The workflow opens a PR updating manifests in this directory.",
        "        4. Submit the updated files to each upstream package-manager repository.",
        "        ">>)

\* build_scoop_manifest: json.dumps(manifest, indent=2) + "\n"
build_scoop_manifest(version, metadata, windows_asset) ==
    Join(<<
        "{",
        "  \"version\": " \o JsonString(version) \o ",",
        "  \"description\": " \o JsonString(metadata["description"]) \o ",",
        "  \"homepage\": " \o JsonString(metadata["repository"]) \o ",",
        "  \"license\": " \o JsonString(metadata["license"]) \o ",",
        "  \"architecture\": {",
        "    \"64bit\": {",
        "      \"url\": " \o JsonString(windows_asset.url) \o ",",
        "      \"hash\": " \o JsonString(windows_asset.sha256),
        "    }",
        "  },",
        "  \"bin\": \"zagel.exe\",",
        "  \"checkver\": \"github\",",
        "  \"autoupdate\": {",
        "    \"architecture\": {",
        "      \"64bit\": {",
        "        \"url\": " \o JsonString(metadata["repository"]
            \o "/releases/download/v$version/"
            \o "zagel-v$version-x86_64-pc-windows-msvc.zip"),
        "      }",
        "    }",
        "  }",
        "}">>, "\n") \o "\n"

\* build_choco_uninstall_script
build_choco_uninstall_script == "Uninstall-BinFile -Name 'zagel'\n"

(***************************************************************************)
(* main() of release_packaging.py                                          *)
(***************************************************************************)
\* the macOS ARM64 suffix had line 334 repeated the suffix of line 333
MacArmSuffixRepeated == "x86_64-apple-darwin.tar.gz"

LinuxSuffix == "x86_64-unknown-linux-gnu.tar.gz"
WindowsSuffix == "x86_64-pc-windows-msvc.zip"
MacX64Suffix == "x86_64-apple-darwin.tar.gz"
MacArmSuffix == "aarch64-apple-darwin.tar.gz"

\* the version had main taken tag.lstrip("v")
RECURSIVE DeriveVersionLstrip(_)
DeriveVersionLstrip(tag) ==
    IF StartsWith(tag, "v") THEN DeriveVersionLstrip(DropPrefix(tag, 1))
    ELSE tag

\* version = tag[1:] if tag.startswith("v") else tag
DeriveVersion(tag) == IF StartsWith(tag, "v") THEN DropPrefix(tag, 1) ELSE tag

\* the winget directory had main left the version out of it
WingetBaseUnversioned(out_dir, version) ==
    out_dir \o <<"winget", "manifests", "s", "Sharno", "Zagel">>

\* out_dir / "winget" / "manifests" / "s" / "Sharno" / "Zagel" / version; the
\* versions of the model are one path component each
WingetBase(out_dir, version) ==
    out_dir \o <<"winget", "manifests", "s", "Sharno", "Zagel", version>>

\* the write_text calls of main, in order: <<path, content>>
Renderings(out_dir, version, metadata, linux_asset, windows_asset, mac_x64_asset, mac_arm_asset) ==
    LET winget_base == WingetBase(out_dir, version)
    IN <<
      <<out_dir \o <<"README.md">>, build_packaging_readme>>,
      <<out_dir \o <<"homebrew", "zagel.rb">>,
        build_homebrew_formula(version, metadata, linux_asset,
                               mac_x64_asset, mac_arm_asset)>>,
      <<out_dir \o <<"scoop", "zagel.json">>,
        build_scoop_manifest(version, metadata, windows_asset)>>,
      <<winget_base \o <<"Sharno.Zagel.yaml">>,
        build_winget_version_manifest(version)>>,
      <<winget_base \o <<"Sharno.Zagel.installer.yaml">>,
        build_winget_installer_manifest(version, windows_asset)>>,
      <<winget_base \o <<"Sharno.Zagel.locale.en-US.yaml">>,
        build_winget_locale_manifest(version, metadata)>>,
      <<out_dir \o <<"chocolatey", "zagel.nuspec">>,
        build_choco_nuspec(version, metadata)>>,
      <<out_dir \o <<"chocolatey", "tools", "chocolateyinstall.ps1">>,
        build_choco_install_script(windows_asset)>>,
      <<out_dir \o <<"chocolatey", "tools", "chocolateyuninstall.ps1">>,
        build_choco_uninstall_script>>,
      <<out_dir \o <<"aur", "PKGBUILD">>,
        build_aur_pkgbuild(version, metadata, linux_asset)>> >>

\* the write_text calls lo..hi of main, the first half before the second:
\* an exception ends the run and leaves what was written before it
RECURSIVE WriteAll(_, _, _, _)
WriteAll(f, renderings, lo, hi) ==
    IF lo > hi THEN [status |-> "ok", fs |-> f, written |-> << >>]
    ELSE IF lo = hi
    THEN Bind(write_text(f, renderings[lo][1], renderings[lo][2]), LAMBDA w :
         [status |-> w.status, fs |-> w.fs,
          written |-> IF w.status = "ok" THEN <<renderings[lo][1]>>
                      ELSE << >>])
    ELSE Bind(WriteAll(f, renderings, lo, (lo + hi) \div 2), LAMBDA left :
         IF left.status # "ok" THEN left
         ELSE Bind(WriteAll(left.fs, renderings, (lo + hi) \div 2 + 1, hi),
                   LAMBDA right :
              [status |-> right.status, fs |-> right.fs,
               written |-> left.written \o right.written]))

\* what a run that raised before the first write_text reports
Aborted(f, status, message, loaded, resolved) ==
    [status |-> status, message |-> message, fs |-> f,
     tag |-> loaded.tag, assets |-> loaded.assets, version |-> << >>,
     resolved |-> resolved, renderings |-> << >>, written |-> << >>]

NotLoaded == [tag |-> << >>, assets |-> << >>]

\* the four find_asset calls of main, in order; the first exception ends
\* the run
ResolveAssets(assets) ==
    Bind(find_asset(assets, LinuxSuffix), LAMBDA linux :
    IF linux.status # "ok"
    THEN [status |-> linux.status, message |-> linux.message,
          resolved |-> << >>]
    ELSE
    Bind(find_asset(assets, WindowsSuffix), LAMBDA windows :
    IF windows.status # "ok"
    THEN [status |-> windows.status, message |-> windows.message,
          resolved |-> linux.asset]
    ELSE
    Bind(find_asset(assets, MacX64Suffix), LAMBDA mac_x64 :
    IF mac_x64.status # "ok"
    THEN [status |-> mac_x64.status, message |-> mac_x64.message,
          resolved |-> linux.asset \o windows.asset]
    ELSE
    Bind(find_asset(assets, MacArmSuffix), LAMBDA mac_arm :
    IF mac_arm.status # "ok"
    THEN [status |-> mac_arm.status, message |-> mac_arm.message,
          resolved |-> linux.asset \o windows.asset \o mac_x64.asset]
    ELSE [status |-> "ok", message |-> "",
          resolved |-> linux.asset \o windows.asset \o mac_x64.asset
                       \o mac_arm.asset]))))

\* the rest of main had it written the README before it resolved the assets
RenderAndWriteReadmeFirst(f, out_dir, metadata, loaded) ==
    Bind(DeriveVersion(loaded.tag[1]), LAMBDA version :
    Bind(write_text(f, out_dir \o <<"README.md">>, build_packaging_readme),
         LAMBDA readme :
    Bind(ResolveAssets(loaded.assets), LAMBDA found :
    IF found.status # "ok"
    THEN Aborted(readme.fs, found.status, found.message, loaded,
                 found.resolved)
    ELSE
    Bind(Renderings(out_dir, version, metadata, found.resolved[1],
                    found.resolved[2], found.resolved[3], found.resolved[4]),
         LAMBDA renderings :
    Bind(WriteAll(readme.fs, renderings, 1,
                  Len(renderings)), LAMBDA w :
      [status |-> w.status, message |-> "", fs |-> w.fs,
       tag |-> loaded.tag, assets |-> loaded.assets,
       version |-> <<version>>, resolved |-> found.resolved,
       renderings |-> renderings, written |-> w.written])))))

\* the rest of main once the metadata and the release are loaded; resolved
\* holds the assets found, in the order linux, windows, mac_x64, mac_arm
RenderAndWrite(f, out_dir, metadata, loaded) ==
    Bind(DeriveVersion(loaded.tag[1]), LAMBDA version :
    Bind(ResolveAssets(loaded.assets), LAMBDA found :
    IF found.status # "ok"
    THEN Aborted(f, found.status, found.message, loaded, found.resolved)
    ELSE
    Bind(Renderings(out_dir, version, metadata, found.resolved[1],
                    found.resolved[2], found.resolved[3], found.resolved[4]),
         LAMBDA renderings :
    Bind(WriteAll(f, renderings, 1, Len(renderings)), LAMBDA w :
      [status |-> w.status, message |-> "", fs |-> w.fs,
       tag |-> loaded.tag, assets |-> loaded.assets,
       version |-> <<version>>, resolved |-> found.resolved,
       renderings |-> renderings, written |-> w.written]))))

\* main() of release_packaging.py
PackagingMain(f, release_json, out_dir) ==
    Bind(read_cargo_metadata(f), LAMBDA cargo :
    IF cargo.status # "ok"
    THEN Aborted(f, cargo.status, cargo.message, NotLoaded, << >>)
    ELSE
    Bind(load_assets(f, release_json), LAMBDA loaded :
    IF loaded.status # "ok"
    THEN Aborted(f, loaded.status, loaded.message, loaded, << >>)
    ELSE RenderAndWrite(f, out_dir, cargo.metadata[1], loaded)))

(***************************************************************************)
(* The inputs of the model.                                                *)
(***************************************************************************)
DistDir == <<"dist">>

\* the values of --output the model runs release_checksums.py with: the
\* default, a file inside dist_dir, a file under directories to be made, a
\* name an artifact has, and the name of a subdirectory of dist_dir
Outputs ==
    {<<"SHA256SUMS">>, <<"dist", "SHA256SUMS">>,
     <<"out", "sums", "SHA256SUMS">>, <<"dist", "b.zip">>, <<"dist", "sub">>}

\* what a dist directory may hold before the first run
DistEntries ==
    (<<"dist", "a.tar.gz">> :> TextFile("zagel for x86_64-unknown-linux-gnu"))
    @@ (<<"dist", "B.zip">> :> TextFile(""))
    @@ (<<"dist", "b.zip">> :> TextFile("zagel for x86_64-pc-windows-msvc"))
    @@ (<<"dist", "SHA256SUMS">> :> TextFile("stale\n"))
    @@ (<<"dist", "sub">> :> DirNode)

Restrict(f, S) == [p \in S |-> f[p]]

\* the asset of a release as `gh release view --json tagName,assets` gives it
JsonAsset(name, tag, digest) ==
    [name |-> name,
     url |-> "https://github.com/sharno/zagel/releases/download/" \o tag
             \o "/" \o name,
     digest |-> digest]

Sums == JsonAsset("SHA256SUMS", "v1.2.3", <<"sha256:sha256:00ff">>)
LinuxDebug ==
    JsonAsset("zagel-debug-v1.2.3-x86_64-unknown-linux-gnu.tar.gz", "v1.2.3",
              <<"sha256:d0d0d0d0">>)
MacArm ==
    JsonAsset("zagel-v1.2.3-aarch64-apple-darwin.tar.gz", "v1.2.3",
              <<"sha256:a4a4a4a4">>)
MacX64 ==
    JsonAsset("zagel-v1.2.3-x86_64-apple-darwin.tar.gz", "v1.2.3",
              <<"sha256:a3a3a3a3">>)
Linux ==
    JsonAsset("zagel-v1.2.3-x86_64-unknown-linux-gnu.tar.gz", "v1.2.3",
              <<"sha256:a1a1a1a1">>)
Windows ==
    JsonAsset("zagel-v1.2.3-x86_64-pc-windows-msvc.zip", "v1.2.3",
              <<"sha256:a2a2a2a2">>)
\* assets whose digest parse_sha256 rejects
NoDigest ==
    [name |-> "zagel-v1.2.3-source.tar.gz",
     url |-> "https://github.com/sharno/zagel/releases/download/v1.2.3/"
             \o "zagel-v1.2.3-source.tar.gz"]
NullDigest == JsonAsset("zagel-v1.2.2.tar.gz", "v1.2.2", << >>)
Md5Digest == JsonAsset("zagel-v1.2.3.deb", "v1.2.3", <<"md5:0123abcd">>)
UpperDigest ==
    JsonAsset("zagel-v1.2.3-x86_64-pc-windows-msvc.zip", "v1.2.3",
              <<"SHA256:a2a2a2a2">>)

AssetPool == <<Sums, LinuxDebug, MacArm, MacX64, Linux, Windows>>
Complete == <<MacArm, MacX64, Linux, Windows>>

\* the elements of seq at the indexes S, in order
RECURSIVE Pick(_, _, _)
Pick(seq, S, i) ==
    IF i > Len(seq) THEN << >>
    ELSE (IF i \in S THEN <<seq[i]>> ELSE << >>) \o Pick(seq, S, i + 1)

ReleaseDoc(tag, assets) == [tagName |-> tag, assets |-> assets]

\* the release documents of the model: the release without assets, every
\* selection of the pool that leaves out at most two assets, the complete
\* release with a rejected digest, and the complete release under other tags
ReleaseDocs ==
    {ReleaseDoc("v1.2.3", Pick(AssetPool, S, 1)) :
        S \in {T \in SUBSET (1..Len(AssetPool)) :
                 T = {} \/ Cardinality(T) >= Len(AssetPool) - 2}}
    \cup {ReleaseDoc("v1.2.3", Complete \o <<NoDigest>>),
          ReleaseDoc("v1.2.3", <<Md5Digest>> \o Complete),
          ReleaseDoc("v1.2.3", <<MacArm, MacX64, Linux, UpperDigest>>),
          ReleaseDoc("v1.2.3", <<Linux, NoDigest, Md5Digest>>),
          ReleaseDoc("v1.2.3", Complete \o <<NullDigest>>)}
    \cup {ReleaseDoc(tag, Complete) :
            tag \in {"1.2.3", "vv1", "V1.2.3", "v1.2.3-\"rc\""}}

\* the release the model publishes next
NextDoc ==
    ReleaseDoc("v2.0.0",
      <<JsonAsset("zagel-v2.0.0-x86_64-unknown-linux-gnu.tar.gz", "v2.0.0",
                  <<"sha256:b1b1b1b1">>),
        JsonAsset("zagel-v2.0.0-x86_64-pc-windows-msvc.zip", "v2.0.0",
                  <<"sha256:b2b2b2b2">>),
        JsonAsset("zagel-v2.0.0-x86_64-apple-darwin.tar.gz", "v2.0.0",
                  <<"sha256:b3b3b3b3">>),
        JsonAsset("zagel-v2.0.0-aarch64-apple-darwin.tar.gz", "v2.0.0",
                  <<"sha256:b4b4b4b4">>)>>)

CargoPackage ==
    [name |-> "zagel",
     description |-> "Zagel, a \"REST\" client",
     license |-> "MIT",
     repository |-> "https://github.com/sharno/zagel"]

ReleaseJsons ==
    {<<"release.json">>, <<"next.json">>, <<"packaging", "scoop", "zagel.json">>}
OutDir == <<"packaging">>

\* the files every initial file system holds
BaseFiles ==
    (CargoToml :> TomlFile(CargoPackage))
    @@ (<<"next.json">> :> JsonFile(NextDoc))

DistOne ==
    (<<"dist">> :> DirNode) @@ Restrict(DistEntries, {<<"dist", "a.tar.gz">>})

CompleteDoc == ReleaseDoc("v1.2.3", Complete)

\* file systems that differ in the dist directory
ChecksumInits ==
    {BaseFiles @@ (<<"dist">> :> DirNode) @@ Restrict(DistEntries, S) :
        S \in SUBSET DOMAIN DistEntries}
    \cup {BaseFiles, BaseFiles @@ (<<"dist">> :> TextFile("not a directory")),
          BaseFiles @@ DistOne @@ (<<"out">> :> TextFile("in the way"))}

\* file systems that differ in the inputs of release_packaging.py
PackagingInits ==
    {BaseFiles @@ DistOne @@ (<<"release.json">> :> JsonFile(doc)) :
        doc \in ReleaseDocs}
    \cup {
      \* no Cargo.toml; a Cargo.toml without a license
      DistOne @@ (<<"release.json">> :> JsonFile(CompleteDoc)),
      (CargoToml :> TomlFile([k \in {"name", "description", "repository"} |->
                                CargoPackage[k]]))
        @@ DistOne @@ (<<"release.json">> :> JsonFile(CompleteDoc)),
      \* a regular file where a directory of the output is to be
      BaseFiles @@ DistOne @@ (<<"release.json">> :> JsonFile(CompleteDoc))
        @@ (<<"packaging">> :> DirNode)
        @@ (<<"packaging", "scoop">> :> TextFile("in the way")),
      \* an output directory that holds a file of its own
      BaseFiles @@ DistOne @@ (<<"release.json">> :> JsonFile(CompleteDoc))
        @@ (<<"packaging">> :> DirNode)
        @@ (<<"packaging", "NOTES.md">> :> TextFile("notes\n")),
      \* the release document stored where the Scoop manifest goes
      BaseFiles @@ DistOne
        @@ (<<"packaging">> :> DirNode)
        @@ (<<"packaging", "scoop">> :> DirNode)
        @@ (<<"packaging", "scoop", "zagel.json">> :> JsonFile(CompleteDoc))}

NoRun == [tool |-> "none"]

Init ==
    /\ fs \in ChecksumInits \cup PackagingInits
    /\ last = NoRun
    /\ runs = 0
    /\ generated = {}

\* one run of release_checksums.py; repeat tells that the run before it was
\* a run of the same script with the same arguments
RunChecksums ==
    /\ runs < MaxRuns
    /\ \E output \in Outputs :
       \E r \in {ChecksumsMain(fs, DistDir, output)} :
            /\ fs' = r.fs
            /\ last' = [tool |-> "checksums", dist_dir |-> DistDir,
                        output |-> output, status |-> r.status,
                        message |-> r.message, before |-> fs,
                        repeat |-> /\ last.tool = "checksums"
                                   /\ last.dist_dir = DistDir
                                   /\ last.output = output]
    /\ runs' = runs + 1
    /\ UNCHANGED generated

\* one run of release_packaging.py
RunPackaging ==
    /\ runs < MaxRuns
    /\ \E release_json \in ReleaseJsons :
       \E r \in {PackagingMain(fs, release_json, OutDir)} :
            /\ fs' = r.fs
            /\ last' = [tool |-> "packaging", release_json |-> release_json,
                        output_dir |-> OutDir, status |-> r.status,
                        message |-> r.message, before |-> fs,
                        repeat |-> /\ last.tool = "packaging"
                                   /\ last.release_json = release_json
                                   /\ last.output_dir = OutDir,
                        tag |-> r.tag, assets |-> r.assets,
                        version |-> r.version, resolved |-> r.resolved,
                        renderings |-> r.renderings, written |-> r.written]
            /\ generated' = generated
                              \cup {r.written[i] : i \in 1..Len(r.written)}
    /\ runs' = runs + 1

Next == RunChecksums \/ RunPackaging

Spec == Init /\ [][Next]_vars

(***************************************************************************)
(* Properties.  The definitions below state what the runs are expected to  *)
(* do in terms of the file system before the run (last.before), the        *)
(* arguments of the run and the file system after it (fs).                 *)
(***************************************************************************)
\* v occurs in t
Contains(t, v) ==
    \/ Len(v) = 0
    \/ \E i \in 1..(Len(t) - Len(v) + 1) :
          /\ CharAt(t, i) = CharAt(v, 1)
          /\ SubSeq(t, i, i + Len(v) - 1) = v

\* the number of lines of a text whose lines end in a line break
LineCount(t) == Cardinality({i \in 1..Len(t) : CharAt(t, i) = "\n"})

IsHex64(d) ==
    /\ Len(d) = 64
    /\ \A i \in 1..64 : \E j \in 1..16 : CharAt(d, i) = CharAt(HexDigits, j)

ChecksumsRan == last.tool = "checksums"
PackagingRan == last.tool = "packaging"

\* the regular files of directory d
RegularFiles(f, d) ==
    {p \in DOMAIN f : Len(p) = Len(d) + 1 /\ Parent(p) = d /\ f[p].kind = "file"}

\* the regular files of the dist directory the last run had to list
ExpectedArtifacts ==
    {p \in RegularFiles(last.before, last.dist_dir) :
        Name(p) # Name(last.output)}

\* the digest of the whole content, taken in one update
DigestOfContent(content) == HexDigest(HasherUpdate(0, content))

\* the manifest of the files S of file system f: the file with k - 1 files
\* of smaller name gives line k
ExpectedManifest(f, S) ==
    LET at(k) == CHOOSE p \in S :
                   Cardinality({q \in S : StrLess(Name(q), Name(p))}) = k - 1
    IN Join([k \in 1..Cardinality(S) |->
               DigestOfContent(f[at(k)].text) \o "  " \o Name(at(k)) \o "\n"],
            "")

\* C1 as claimed: a successful run of the checksum generator over a directory
\* of N >= 1 regular files writes a manifest of exactly N lines.
C1_AsClaimed ==
    (ChecksumsRan /\ last.status = "ok") =>
        LineCount(fs[last.output].text)
          = Cardinality(RegularFiles(last.before, last.dist_dir))

\* C1 amended: a successful run of the checksum generator writes one line per
\* regular file of dist_dir whose name differs from the name of the output
\* file, in ascending order of file name, each line the 64-character
\* lowercase hexadecimal digest of the file, two spaces and the file name.
C1_Manifest ==
    (ChecksumsRan /\ last.status = "ok") =>
        /\ ExpectedArtifacts # {}
        /\ IsFile(fs, last.output)
        /\ fs[last.output].text
             = ExpectedManifest(last.before, ExpectedArtifacts)
        /\ LineCount(fs[last.output].text) = Cardinality(ExpectedArtifacts)
        /\ \A p \in ExpectedArtifacts :
              IsHex64(DigestOfContent(last.before[p].text))

\* a successful run over several artifacts, one of more than one chunk, next
\* to a file named like the output
C1_Witness ==
    /\ ChecksumsRan /\ last.status = "ok"
    /\ Cardinality(ExpectedArtifacts) >= 3
    /\ \E p \in ExpectedArtifacts : Len(last.before[p].text) > ChunkSize
    /\ \E p \in RegularFiles(last.before, last.dist_dir) :
          Name(p) = Name(last.output)

\* the dist directory gives the run nothing to list
NothingToList ==
    \/ last.dist_dir \notin DOMAIN last.before
    \/ last.before[last.dist_dir].kind # "dir"
    \/ \A p \in RegularFiles(last.before, last.dist_dir) :
          Name(p) = Name(last.output)

\* C2: when dist_dir does not exist, is not a directory, or holds no regular
\* file other than one named like the output file, the run raises
\* ReleaseArtifactsError and leaves the file system as it was: the output
\* file is neither created nor modified and no directory is made.
C2_NoArtifacts ==
    (ChecksumsRan /\ NothingToList) =>
        /\ last.status = "ReleaseArtifactsError"
        /\ fs = last.before

\* a run whose only regular file is named like the output, and whose output
\* lies under directories that do not exist
C2_Witness ==
    /\ ChecksumsRan /\ NothingToList
    /\ last.output = <<"out", "sums", "SHA256SUMS">>
    /\ <<"dist", "SHA256SUMS">> \in DOMAIN last.before
    /\ <<"out">> \notin DOMAIN last.before
    /\ last.status = "ReleaseArtifactsError"

RequiredSuffixes ==
    <<"x86_64-unknown-linux-gnu.tar.gz", "x86_64-pc-windows-msvc.zip",
      "x86_64-apple-darwin.tar.gz", "aarch64-apple-darwin.tar.gz">>

\* the project manifest is there with its four fields
CargoOk(f) ==
    /\ CargoToml \in DOMAIN f
    /\ "toml" \in DOMAIN f[CargoToml]
    /\ {"name", "description", "license", "repository"}
         \subseteq DOMAIN f[CargoToml].toml

\* the release document the last run was given, when it was given one
HasDoc ==
    /\ PackagingRan
    /\ CargoOk(last.before)
    /\ last.release_json \in DOMAIN last.before
    /\ "json" \in DOMAIN last.before[last.release_json]

Doc == last.before[last.release_json].json

HasSha256Prefix(asset) ==
    /\ "digest" \in DOMAIN asset
    /\ asset.digest # << >>
    /\ Len(asset.digest[1]) >= 7
    /\ asset.digest[1] = "sha256:" \o SubSeq(asset.digest[1], 8,
                                             Len(asset.digest[1]))

DigestsOk == \A i \in 1..Len(Doc.assets) : HasSha256Prefix(Doc.assets[i])

\* the indexes of the assets of the document whose name ends with suffix
Matching(suffix) ==
    {i \in 1..Len(Doc.assets) : EndsWith(Doc.assets[i].name, suffix)}

ResolutionFails ==
    \E k \in 1..4 : Cardinality(Matching(RequiredSuffixes[k])) # 1

\* C3: whenever asset resolution fails for one of the four required suffixes,
\* the run aborts with the error and has written no file: the file system is
\* as it was before the run.
C3_NoPartialOutput ==
    (HasDoc /\ DigestsOk /\ ResolutionFails) =>
        /\ last.status = "ValueError"
        /\ last.written = << >>
        /\ fs = last.before

\* a release without the macOS ARM64 tarball, the other three being there
C3_Witness ==
    /\ HasDoc /\ DigestsOk
    /\ Matching("aarch64-apple-darwin.tar.gz") = {}
    /\ Len(last.resolved) = 3
    /\ last.message
         = "could not find release asset ending in 'aarch64-apple-darwin.tar.gz'"

\* the asset of the loaded list that the document gives at index i
Loaded(i) ==
    [name |-> Doc.assets[i].name, url |-> Doc.assets[i].url,
     sha256 |-> SubSeq(Doc.assets[i].digest[1], 8,
                       Len(Doc.assets[i].digest[1]))]

\* C4: find_asset returns an asset if and only if exactly one asset name ends
\* with the suffix, and then returns that asset; with no such asset it fails
\* with a not-found error, with two or more with an ambiguity error.
C4_FindAsset ==
    (HasDoc /\ DigestsOk) =>
        \A k \in 1..4 :
           LET suffix == RequiredSuffixes[k]
               n == Cardinality(Matching(suffix))
               found == find_asset(last.assets, suffix)
           IN /\ (found.status = "ok") <=> (n = 1)
              /\ n = 1 =>
                   found.asset = <<Loaded(CHOOSE i \in Matching(suffix) : TRUE)>>
              /\ n = 0 =>
                   /\ found.status = "ValueError"
                   /\ found.message = "could not find release asset ending in '"
                                      \o suffix \o "'"
              /\ n > 1 =>
                   /\ found.status = "ValueError"
                   /\ found.message = "found multiple assets ending in '"
                                      \o suffix \o "'"

\* C4 seen from main: the run resolves the suffixes in order and stops at the
\* first whose matches are not exactly one
C4_Resolved ==
    (HasDoc /\ DigestsOk) =>
        \A k \in 1..4 :
           (\A j \in 1..(k - 1) : Cardinality(Matching(RequiredSuffixes[j])) = 1)
           => IF Cardinality(Matching(RequiredSuffixes[k])) = 1
              THEN /\ Len(last.resolved) >= k
                   /\ last.resolved[k]
                        = Loaded(CHOOSE i \in Matching(RequiredSuffixes[k]) : TRUE)
              ELSE /\ Len(last.resolved) = k - 1
                   /\ last.status = "ValueError"

C4_Holds == C4_FindAsset /\ C4_Resolved

\* two assets end in the Linux suffix, the later of them the debug build
C4_Witness ==
    /\ HasDoc /\ DigestsOk
    /\ Cardinality(Matching("x86_64-unknown-linux-gnu.tar.gz")) = 2
    /\ last.message
         = "found multiple assets ending in 'x86_64-unknown-linux-gnu.tar.gz'"

PackagingOk == PackagingRan /\ last.status = "ok"

\* the text the last run left at the path under the output directory
OutText(rel) == fs[last.output_dir \o rel].text

WingetDir == <<"winget", "manifests", "s", "Sharno", "Zagel", last.version[1]>>

\* the output file layout of the specification, in the order of main
DocumentedPaths ==
    <<<<"README.md">>,
      <<"homebrew", "zagel.rb">>,
      <<"scoop", "zagel.json">>,
      WingetDir \o <<"Sharno.Zagel.yaml">>,
      WingetDir \o <<"Sharno.Zagel.installer.yaml">>,
      WingetDir \o <<"Sharno.Zagel.locale.en-US.yaml">>,
      <<"chocolatey", "zagel.nuspec">>,
      <<"chocolatey", "tools", "chocolateyinstall.ps1">>,
      <<"chocolatey", "tools", "chocolateyuninstall.ps1">>,
      <<"aur", "PKGBUILD">>>>

\* C5 as claimed: a successful run produces nine output files, and each of
\* them contains the derived version string verbatim.
C5_AsClaimed ==
    PackagingOk =>
        /\ Len(last.written) = 9
        /\ \A i \in 1..Len(last.written) :
              Contains(fs[last.written[i]].text, last.version[1])

\* C5 amended: a successful run produces ten output files, at the documented
\* paths; the Homebrew formula, the three Winget manifests, the Chocolatey
\* nuspec and the AUR PKGBUILD contain the derived version verbatim, and the
\* Scoop manifest contains it as a JSON string.
C5_Outputs ==
    PackagingOk =>
        /\ last.written = [i \in 1..10 |-> last.output_dir \o DocumentedPaths[i]]
        /\ \A i \in 1..10 : IsFile(fs, last.output_dir \o DocumentedPaths[i])
        /\ \A i \in {2, 4, 5, 6, 7, 10} :
              Contains(OutText(DocumentedPaths[i]), last.version[1])
        /\ Contains(OutText(DocumentedPaths[3]),
                    "\"version\": \"" \o JsonEscape(last.version[1]) \o "\",")

\* a successful run whose version holds a character that JSON escapes
C5_Witness ==
    /\ PackagingOk
    /\ last.tag = <<"v1.2.3-\"rc\"">>
    /\ Len(last.written) = 10

\* C6 as claimed: after successful runs against one output directory, the
\* files the generator has written there are exactly those of the last run;
\* none is left over from an earlier run.
C6_AsClaimed ==
    PackagingOk =>
        {p \in generated : IsFile(fs, p)}
          = {last.written[i] : i \in 1..Len(last.written)}

\* C6 amended: a successful run overwrites the ten files of its own version
\* with what it rendered and removes nothing: every other path of the file
\* system, such as the winget directory of an earlier version, is as it was
\* before the run.
C6_Overwrites ==
    PackagingOk =>
        /\ \A i \in 1..Len(last.renderings) :
              fs[last.renderings[i][1]] = TextFile(last.renderings[i][2])
        /\ \A p \in DOMAIN last.before :
              (\A i \in 1..Len(last.written) : last.written[i] # p)
              => (p \in DOMAIN fs /\ fs[p] = last.before[p])

\* a successful run after a successful run of another version, whose winget
\* manifests are still there
C6_Witness ==
    /\ PackagingOk
    /\ last.version = <<"2.0.0">>
    /\ IsFile(fs, <<"packaging", "winget", "manifests", "s", "Sharno", "Zagel",
                    "1.2.3", "Sharno.Zagel.yaml">>)
    /\ <<"packaging", "winget", "manifests", "s", "Sharno", "Zagel", "1.2.3",
         "Sharno.Zagel.yaml">> \in generated

\* C7: each script is idempotent: a run with the arguments of the run before
\* it leaves every file as the run before it left it.  For the checksum
\* generator this holds with the output file inside dist_dir.
C7_Idempotent ==
    (last.tool # "none" /\ last.repeat) => fs = last.before

\* the second of two successful checksum runs whose output is in dist_dir
C7_Witness ==
    /\ ChecksumsRan /\ last.repeat /\ last.status = "ok"
    /\ last.output = <<"dist", "SHA256SUMS">>
    /\ Cardinality(ExpectedArtifacts) >= 2

\* the first asset of the document whose digest lacks the prefix
FirstRejected ==
    Doc.assets[CHOOSE i \in 1..Len(Doc.assets) :
                 /\ ~HasSha256Prefix(Doc.assets[i])
                 /\ \A j \in 1..(i - 1) : HasSha256Prefix(Doc.assets[j])]

\* what C8 says of the last run
C8_Outcome ==
    IF DigestsOk
    THEN /\ Len(last.assets) = Len(Doc.assets)
         /\ \A i \in 1..Len(Doc.assets) :
               /\ last.assets[i].name = Doc.assets[i].name
               /\ last.assets[i].url = Doc.assets[i].url
               /\ "sha256:" \o last.assets[i].sha256 = Doc.assets[i].digest[1]
    ELSE /\ last.status = "ValueError"
         /\ last.message
              = "asset " \o FirstRejected.name \o " is missing a sha256 digest"
         /\ last.written = << >>
         /\ fs = last.before

\* C8 as claimed: an asset whose digest lacks the prefix 'sha256:' is rejected,
\* whether or not it is one of the four required assets: loading fails with
\* an error naming the asset and no file is written; when every digest has
\* the prefix, each ReleaseAsset.sha256 is the digest with exactly the prefix
\* removed.
C8_AsClaimed == HasDoc => C8_Outcome

\* the first asset without the prefix has the JSON null for its digest
NullFirst ==
    /\ ~DigestsOk
    /\ "digest" \in DOMAIN FirstRejected
    /\ FirstRejected.digest = << >>

\* C8 where it holds: what C8 says is so of every run whose first asset
\* without the prefix has a string for its digest or has no digest key; when
\* that asset has the JSON null for its digest the run ends with the
\* AttributeError of None.startswith, which does not name the asset, and
\* writes no file.
C8_Digests ==
    HasDoc =>
        IF NullFirst
        THEN /\ last.status = "AttributeError"
             /\ last.message = "'NoneType' object has no attribute 'startswith'"
             /\ last.written = << >>
             /\ fs = last.before
        ELSE C8_Outcome

\* a complete release with one more asset, which has an md5 digest
C8_Witness ==
    /\ HasDoc
    /\ \A k \in 1..4 : Cardinality(Matching(RequiredSuffixes[k])) = 1
    /\ last.status = "ValueError"
    /\ last.message = "asset zagel-v1.2.3.deb is missing a sha256 digest"

\* a complete release with one more asset, whose digest is null
C8_WitnessNull ==
    /\ HasDoc /\ NullFirst
    /\ \A k \in 1..4 : Cardinality(Matching(RequiredSuffixes[k])) = 1
    /\ last.status = "AttributeError"

\* a digest that begins with the prefix twice loses it once
C8_WitnessPrefixOnce ==
    /\ HasDoc /\ DigestsOk
    /\ \E i \in 1..Len(last.assets) : last.assets[i].sha256 = "sha256:00ff"

\* C9: the version is the release tag without its leading 'v' when the tag
\* starts with 'v', and the tag itself otherwise; at most one character is
\* removed.
C9_Version ==
    (PackagingRan /\ last.version # << >>) =>
        LET tag == Doc.tagName
            version == last.version[1]
        IN /\ IF Len(tag) > 0 /\ CharAt(tag, 1) = "v"
              THEN tag = "v" \o version
              ELSE tag = version
           /\ tag = "v1.2.3" => version = "1.2.3"
           /\ tag = "1.2.3" => version = "1.2.3"
           /\ tag = "vv1" => version = "v1"

\* the tag vv1 gave the version v1
C9_Witness ==
    /\ HasDoc
    /\ Doc.tagName = "vv1"
    /\ last.version = <<"v1">>

\* the asset of the document for the k-th required suffix
Required(k) == Loaded(CHOOSE i \in Matching(RequiredSuffixes[k]) : TRUE)

Quoted(s) == "\"" \o s \o "\""

\* C10: in every manifest a successful run writes, each download URL stands
\* with the SHA-256 of the same asset, and that asset is the one resolved for
\* the platform of the manifest: the Windows zip in the Scoop, Winget
\* installer and Chocolatey install files, the Linux tarball in the AUR
\* PKGBUILD and the Homebrew on_linux block, the macOS ARM64 tarball in the
\* Homebrew arm branch, the macOS x86-64 tarball in the Homebrew intel branch;
\* the four assets are pairwise distinct.
C10_Pairs ==
    PackagingOk =>
        LET linux == Required(1)
            windows == Required(2)
            mac_x64 == Required(3)
            mac_arm == Required(4)
            homebrew == OutText(DocumentedPaths[2])
        IN
        /\ last.resolved = <<linux, windows, mac_x64, mac_arm>>
        /\ \A j, k \in 1..4 : j # k => Required(j) # Required(k)
        /\ Contains(homebrew,
             "  on_macos do\n    if Hardware::CPU.arm?\n      url "
             \o Quoted(mac_arm.url) \o "\n      sha256 "
             \o Quoted(mac_arm.sha256) \o "\n    end\n\n"
             \o "    if Hardware::CPU.intel?\n      url "
             \o Quoted(mac_x64.url) \o "\n      sha256 "
             \o Quoted(mac_x64.sha256) \o "\n    end\n  end\n")
        /\ Contains(homebrew,
             "  on_linux do\n    if Hardware::CPU.intel?\n      url "
             \o Quoted(linux.url) \o "\n      sha256 "
             \o Quoted(linux.sha256) \o "\n    else\n")
        /\ Contains(OutText(DocumentedPaths[3]),
             "    \"64bit\": {\n      \"url\": " \o Quoted(windows.url)
             \o ",\n      \"hash\": " \o Quoted(windows.sha256) \o "\n    }\n")
        /\ Contains(OutText(DocumentedPaths[5]),
             "\n    InstallerUrl: " \o windows.url
             \o "\n    InstallerSha256: " \o windows.sha256 \o "\n")
        /\ Contains(OutText(DocumentedPaths[8]),
             "\n  url64bit      = '" \o windows.url
             \o "'\n  checksum64    = '" \o windows.sha256 \o "'\n")
        /\ Contains(OutText(DocumentedPaths[10]),
             "\nsource=('zagel-v${pkgver}-x86_64-unknown-linux-gnu.tar.gz::"
             \o linux.url \o "')\nsha256sums=('" \o linux.sha256 \o "')\n")

\* a successful run on a release that lists its assets in another order than
\* main resolves them, with an asset that is none of the four
C10_Witness ==
    /\ PackagingOk
    /\ Len(Doc.assets) = 5
    /\ Doc.assets[1].name = "SHA256SUMS"
    /\ EndsWith(Doc.assets[2].name, "aarch64-apple-darwin.tar.gz")

=============================================================================
